---- MODULE Spec2Model ----
(***************************************************************************)
(* Model of src/app.py: a Streamlit page that has a local model (ollama)   *)
(* review a question, sends the question to a cloud model, has the local   *)
(* model review the answer and appends an audit record to audit_log.json.  *)
(*                                                                         *)
(* Text is a sequence of one-character strings, so that lower(), strip()   *)
(* and the substring test `in` are computed character by character.        *)
(* Streamlit runs the whole script once per user interaction of a browser  *)
(* session; sessions share nothing but the audit log file.                 *)
(***************************************************************************)
EXTENDS Integers, Sequences, FiniteSets, TLC

\* ------------------------------------------------------------------ bounds
\* Script reruns the users trigger, over all sessions (each may append one
\* record to the log).
MaxRuns == 2

\* Browser sessions (or app instances) that share audit_log.json.
Sessions == {1, 2}

\* ------------------------------------------------------------------- text
Upper == <<"A", "B", "C", "D", "E", "F", "G", "H", "I", "J", "K", "L", "M",
           "N", "O", "P", "Q", "R", "S", "T", "U", "V", "W", "X", "Y", "Z">>
LowerOf == <<"a", "b", "c", "d", "e", "f", "g", "h", "i", "j", "k", "l", "m",
             "n", "o", "p", "q", "r", "s", "t", "u", "v", "w", "x", "y", "z">>

\* str.lower() on one character.
LowerChar(c) ==
  IF \E k \in 1..Len(Upper) : Upper[k] = c
    THEN LowerOf[CHOOSE k \in 1..Len(Upper) : Upper[k] = c]
    ELSE c

\* str.lower()
Lower(t) == [i \in 1..Len(t) |-> LowerChar(t[i])]

\* The characters str.strip() removes (those of them the model's texts use).
Whitespace == {" ", "\t", "\n", "\r"}

\* str.strip(): drop leading and trailing whitespace.
Strip(t) ==
  LET keep == {i \in 1..Len(t) : t[i] \notin Whitespace}
  IN  IF keep = {} THEN <<>>
      ELSE LET lo == CHOOSE i \in keep : \A j \in keep : i <= j
               hi == CHOOSE i \in keep : \A j \in keep : j <= i
           IN  SubSeq(t, lo, hi)

\* Python's `sub in t` on str.
Contains(sub, t) ==
  \E i \in 0..(Len(t) - Len(sub)) : SubSeq(t, i + 1, i + Len(sub)) = sub

\* ------------------------------------------------------- literals of app.py
LocalValidationErrorPrefix ==
  <<"[", "L", "o", "c", "a", "l", " ", "v", "a", "l", "i", "d", "a", "t", "i",
    "o", "n", " ", "e", "r", "r", "o", "r", ":", " ">>
LocalErrorPrefix ==
  <<"[", "E", "r", "r", "o", "r", " ", "c", "a", "l", "l", "i", "n", "g", " ",
    "l", "o", "c", "a", "l", " ", "L", "L", "M", ":", " ">>
CloudErrorPrefix ==
  <<"[", "E", "r", "r", "o", "r", " ", "c", "a", "l", "l", "i", "n", "g", " ",
    "c", "l", "o", "u", "d", " ", "L", "L", "M", ":", " ">>
ErrorSuffix == <<"]">>

CheckPromptHead ==
  <<"Y", "o", "u", " ", "a", "r", "e", " ", "a", " ", "d", "a", "t", "a", " ",
    "c", "o", "m", "p", "l", "i", "a", "n", "c", "e", " ", "a", "s", "s", "i",
    "s", "t", "a", "n", "t", ".", "\n", "D", "o", "e", "s", " ", "t", "h", "e",
    " ", "f", "o", "l", "l", "o", "w", "i", "n", "g", " ", "p", "r", "o", "m",
    "p", "t", " ", "c", "o", "n", "t", "a", "i", "n", " ", "a", "n", "y", " ",
    "P", "I", "I", ",", " ", "P", "H", "I", ",", " ", "c", "o", "n", "f", "i",
    "d", "e", "n", "t", "i", "a", "l", ",", " ", "p", "r", "o", "p", "r", "i",
    "e", "t", "a", "r", "y", ",", " ", "o", "r", " ", "i", "n", "t", "e", "r",
    "n", "a", "l", " ", "i", "n", "f", "o", "r", "m", "a", "t", "i", "o", "n",
    "?", " ", "I", "s", " ", "i", "t", " ", "s", "a", "f", "e", " ", "t", "o",
    " ", "s", "e", "n", "d", " ", "t", "h", "i", "s", " ", "p", "r", "o", "m",
    "p", "t", " ", "t", "o", " ", "a", " ", "c", "l", "o", "u", "d", "-", "b",
    "a", "s", "e", "d", " ", "L", "L", "M", " ", "p", "r", "o", "v", "i", "d",
    "e", "r", "?", " ", "A", "n", "s", "w", "e", "r", " ", "o", "n", "l", "y",
    " ", "Y", "E", "S", " ", "o", "r", " ", "N", "O", " ", "a", "n", "d", " ",
    "e", "x", "p", "l", "a", "i", "n", ".", "\n", "\n", "P", "r", "o", "m", "p",
    "t", ":", "\n">>

ReviewPromptHead ==
  <<"Y", "o", "u", " ", "a", "r", "e", " ", "a", " ", "r", "e", "g", "u", "l",
    "a", "t", "o", "r", "y", " ", "c", "o", "m", "p", "l", "i", "a", "n", "c",
    "e", " ", "e", "x", "p", "e", "r", "t", ".", " ", "R", "e", "v", "i", "e",
    "w", " ", "t", "h", "e", " ", "f", "o", "l", "l", "o", "w", "i", "n", "g",
    " ", "c", "l", "o", "u", "d", "-", "g", "e", "n", "e", "r", "a", "t", "e",
    "d", " ", "a", "n", "s", "w", "e", "r", ":", "\n", "\n">>
ReviewPromptTail ==
  <<"\n", "\n", "I", "s", " ", "i", "t", " ", "a", "c", "c", "u", "r", "a", "t",
    "e", ",", " ", "c", "o", "m", "p", "l", "i", "a", "n", "t", ",", " ", "a",
    "n", "d", " ", "f", "r", "e", "e", " ", "o", "f", " ", "h", "a", "l", "l",
    "u", "c", "i", "n", "a", "t", "i", "o", "n", "s", " ", "o", "r", " ", "m",
    "i", "s", "s", "t", "a", "t", "e", "m", "e", "n", "t", "s", "?">>

mistral == <<"m", "i", "s", "t", "r", "a", "l">>
llama3 == <<"l", "l", "a", "m", "a", "3">>
phi3 == <<"p", "h", "i", "3">>
custom == <<"c", "u", "s", "t", "o", "m">>
available_models == <<mistral, llama3, phi3, custom>>
CloudModelName == <<"g", "p", "t", "-", "4", "o">>

\* ------------------------------------------------------ inputs (small sets)
\* What the user can type into the question field: nothing, whitespace only,
\* a question with trailing whitespace.
QueryInputs == {<<>>, <<" ">>, <<"h", "i", " ">>}

\* What the user can type into the custom model name field.
CustomNames == {<<>>, <<"p", "h", "i">>}

\* Messages str(e) of the exceptions a call can raise.
ErrNoSuchFile ==
  <<"[", "E", "r", "r", "n", "o", " ", "2", "]", " ", "N", "o", " ", "s", "u",
    "c", "h", " ", "f", "i", "l", "e", " ", "o", "r", " ", "d", "i", "r", "e",
    "c", "t", "o", "r", "y", ":", " ", "'", "o", "l", "l", "a", "m", "a", "'">>
ErrDecode ==
  <<"'", "u", "t", "f", "-", "8", "'", " ", "c", "o", "d", "e", "c", " ",
    "c", "a", "n", "'", "t", " ", "d", "e", "c", "o", "d", "e", " ", "b",
    "y", "t", "e", " ", "0", "x", "f", "f", " ", "i", "n", " ", "p", "o",
    "s", "i", "t", "i", "o", "n", " ", "0", ":", " ", "i", "n", "v", "a",
    "l", "i", "d", " ", "s", "t", "a", "r", "t", " ", "b", "y", "t", "e">>
ErrConnection ==
  <<"C", "o", "n", "n", "e", "c", "t", "i", "o", "n", " ", "e", "r", "r", "o",
    "r", ".">>

\* The outcome of a subprocess or API call: it returns text, or it raises.
Returned(t) == [ok |-> TRUE, text |-> t]
Raised(m) == [ok |-> FALSE, text |-> m]

\* `ollama list`: only the header, one installed model, or the command fails.
ListOutcomes ==
  {Returned(<<"N", "A", "M", "E", "\n">>),
   Returned(<<"N", "A", "M", "E", "\n", "p", "h", "i", "3", ":", "m", "i", "n",
              "i", "\n">>),
   Raised(ErrNoSuchFile)}

\* `ollama run <model>` for the precheck.
PrecheckOutcomes ==
  {Returned(<<" ", "Y", "E", "S", "\n">>), Returned(<<"N", "O">>),
   Returned(<<"I", " ", "k", "n", "o", "w">>), Returned(<<>>),
   Raised(ErrNoSuchFile), Raised(ErrDecode)}

\* client.chat.completions.create
CloudOutcomes ==
  {Returned(<<" ", "4", "2", "\n">>),
   Returned(<<"n", "o", " ", "i", "d", "e", "a">>),
   Raised(ErrConnection)}

\* `ollama run <model>` for the postcheck.
PostcheckOutcomes ==
  {Returned(<<" ", "Y", "E", "S", "\n">>), Returned(<<"N", "O">>),
   Raised(ErrNoSuchFile)}

\* ---------------------------------------------------------------- state
VARIABLES
  pc,                  \* per session: where the script run stands
  query,               \* per session: the question field
  model_choice,        \* per session: the selectbox
  custom_name,         \* per session: the custom model name field
  pressed,             \* per session: st.button("Submit") of this run
  validation_feedback, \* per session: local of the Submit handler
  cloud_response,      \* per session: local of the Submit handler
  local_review,        \* per session: local of the Submit handler
  shown,               \* per session: what the run has put on the page
  pending,             \* per session: log entry audit_log is writing
  calls,               \* per session: the calls this run made, in order
  file_at_start,       \* per session: audit_log.json when the run began
  file,                \* audit_log.json: the chunks appended, in order
  clock,               \* datetime.utcnow(), as a tick per reading
  runs                 \* script reruns the users have triggered

vars == <<pc, query, model_choice, custom_name, pressed, validation_feedback,
          cloud_response, local_review, shown, pending, calls, file_at_start,
          file, clock, runs>>

\* A run is over (or none has begun): the page waits for the user.
Resting == {"closed", "idle", "halted", "empty", "rejected", "done"}

\* Line 65.
LOCAL_MODEL(s) ==
  IF model_choice[s] # custom THEN model_choice[s] ELSE custom_name[s]

NoEntry == [timestamp |-> 0, input |-> <<>>, cloud_response |-> <<>>,
            local_validation |-> <<>>]

Init ==
  /\ pc = [s \in Sessions |-> "closed"]
  /\ query = [s \in Sessions |-> <<>>]
  /\ model_choice = [s \in Sessions |-> available_models[1]]
  /\ custom_name = [s \in Sessions |-> <<>>]
  /\ pressed = [s \in Sessions |-> FALSE]
  /\ validation_feedback = [s \in Sessions |-> <<>>]
  /\ cloud_response = [s \in Sessions |-> <<>>]
  /\ local_review = [s \in Sessions |-> <<>>]
  /\ shown = [s \in Sessions |-> <<>>]
  /\ pending = [s \in Sessions |-> NoEntry]
  /\ calls = [s \in Sessions |-> <<>>]
  /\ file_at_start = [s \in Sessions |-> <<>>]
  /\ file = <<>>
  /\ clock = 1
  /\ runs = 0

\* ------------------------------------------------------- pure functions
\* Lines 13-18: check_prompt.
check_prompt(prompt) == CheckPromptHead \o prompt

\* Variant of validate_prompt_with_local: the except branch returns str(e)
\* with no sentinel around it.
validate_prompt_with_local_BareMessage(prompt, model, o) == Strip(o.text)

\* Lines 19-23: the value validate_prompt_with_local returns, given how
\* subprocess.run(['ollama', 'run', model], ...) and the decode ended.
validate_prompt_with_local(prompt, model, o) ==
  IF o.ok THEN Strip(o.text)
  ELSE LocalValidationErrorPrefix \o o.text \o ErrorSuffix

\* Lines 27-31: the value ask_local returns.
ask_local(prompt, model_name, o) ==
  IF o.ok THEN Strip(o.text)
  ELSE LocalErrorPrefix \o o.text \o ErrorSuffix

\* Lines 35-42: the value ask_cloud returns.
ask_cloud(q, o) ==
  IF o.ok THEN Strip(o.text)
  ELSE CloudErrorPrefix \o o.text \o ErrorSuffix

\* Lines 100-104: review_prompt.
review_prompt(answer) == ReviewPromptHead \o answer \o ReviewPromptTail

\* Variant of log_entry: the input is logged stripped.
log_entry_StrippedInput(now, user_input, cloud_resp, local_resp) ==
  [timestamp |-> now, input |-> Strip(user_input),
   cloud_response |-> cloud_resp, local_validation |-> local_resp]

\* Lines 46-51: log_entry.
log_entry(now, user_input, cloud_resp, local_resp) ==
  [timestamp |-> now, input |-> user_input, cloud_response |-> cloud_resp,
   local_validation |-> local_resp]

\* Variant of ModelAvailable: the except branch does not stop the run.
ModelAvailable_FailureGoesOn(model, o) == ~o.ok \/ Contains(model, o.text)

\* Lines 69-77: the run goes on past the availability check only if
\* `ollama list` ran and its output holds the model name.
ModelAvailable(model, o) == o.ok /\ Contains(model, o.text)

\* Variant of EmptyQuery: query == "".
EmptyQuery_NoStrip(q) == q = <<>>

\* Line 81: query.strip() == "".
EmptyQuery(q) == Strip(q) = <<>>

\* Variant of Flagged: "NO" in validation_feedback.
Flagged_CaseSensitive(feedback) == Contains(<<"N", "O">>, feedback)

\* Variant of Flagged: "yes" not in validation_feedback.lower().
Flagged_UnlessYes(feedback) == ~Contains(<<"y", "e", "s">>, Lower(feedback))

\* Line 90: "no" in validation_feedback.lower().
Flagged(feedback) == Contains(<<"n", "o">>, Lower(feedback))

\* One call of the run, as the run made it: what was sent and how it ended.
Call(op, model, sent, o) ==
  [op |-> op, model |-> model, sent |-> sent, ok |-> o.ok, out |-> o.text]

\* Lines 52-53: bytes appended to the file. A chunk is one write(2) on the
\* O_APPEND descriptor: a whole line, or, when the flush on close takes more
\* than one write(2), the head of a line and later its tail. The head and
\* the tail of one entry side by side are the bytes of that entry's line.
AppendChunk(f, part, entry) ==
  IF /\ part = "tail"
     /\ Len(f) > 0
     /\ f[Len(f)] = [part |-> "head", entry |-> entry]
    THEN [f EXCEPT ![Len(f)] = [part |-> "line", entry |-> entry]]
    ELSE Append(f, [part |-> part, entry |-> entry])

\* ---------------------------------------------------------------- actions
\* The locals of a script run that starts.
StartRun(s) ==
  /\ pc' = [pc EXCEPT ![s] = "check"]
  /\ validation_feedback' = [validation_feedback EXCEPT ![s] = <<>>]
  /\ cloud_response' = [cloud_response EXCEPT ![s] = <<>>]
  /\ local_review' = [local_review EXCEPT ![s] = <<>>]
  /\ shown' = [shown EXCEPT ![s] = <<>>]
  /\ pending' = [pending EXCEPT ![s] = NoEntry]
  /\ calls' = [calls EXCEPT ![s] = <<>>]
  /\ file_at_start' = [file_at_start EXCEPT ![s] = file]
  /\ UNCHANGED <<file, clock>>

\* The page is opened: the script runs with the widgets' defaults (lines
\* 60-65) and the button not pressed.
Open(s) ==
  /\ pc[s] = "closed"
  /\ StartRun(s)
  /\ UNCHANGED <<query, model_choice, custom_name, pressed, runs>>

\* The user edits a widget or presses Submit: Streamlit runs the script again
\* with the widgets' values (lines 60-65, 80).
Interact(s) ==
  /\ pc[s] \in Resting \ {"closed"}
  /\ runs < MaxRuns
  /\ runs' = runs + 1
  /\ \E q \in QueryInputs, k \in 1..Len(available_models),
        c \in CustomNames, b \in BOOLEAN :
       /\ available_models[k] # custom => c = <<>>
       /\ query' = [query EXCEPT ![s] = q]
       /\ model_choice' = [model_choice EXCEPT ![s] = available_models[k]]
       /\ custom_name' = [custom_name EXCEPT ![s] = c]
       /\ pressed' = [pressed EXCEPT ![s] = b]
  /\ StartRun(s)

\* Line 68 with LOCAL_MODEL empty: the availability check is skipped.
CheckSkipped(s) ==
  /\ pc[s] = "check"
  /\ LOCAL_MODEL(s) = <<>>
  /\ pc' = [pc EXCEPT ![s] = "button"]
  /\ UNCHANGED <<query, model_choice, custom_name, pressed,
                 validation_feedback, cloud_response, local_review, shown,
                 pending, calls, file_at_start, file, clock, runs>>

\* Lines 68-77: `ollama list`, then st.stop() unless the model is listed.
CheckModel(s) ==
  /\ pc[s] = "check"
  /\ LOCAL_MODEL(s) # <<>>
  /\ \E o \in ListOutcomes :
       /\ calls' = [calls EXCEPT ![s] =
                      Append(@, Call("ollama list", <<>>, <<>>, o))]
       /\ pc' = [pc EXCEPT ![s] =
                   IF ModelAvailable(LOCAL_MODEL(s), o) THEN "button"
                   ELSE "halted"]
  /\ UNCHANGED <<query, model_choice, custom_name, pressed,
                 validation_feedback, cloud_response, local_review, shown,
                 pending, file_at_start, file, clock, runs>>

\* Lines 80-83: the script ends if Submit was not pressed, stops on an empty
\* question, and otherwise enters the pipeline.
SubmitButton(s) ==
  /\ pc[s] = "button"
  /\ pc' = [pc EXCEPT ![s] =
              IF ~pressed[s] THEN "idle"
              ELSE IF EmptyQuery(query[s]) THEN "empty"
              ELSE "precheck"]
  /\ UNCHANGED <<query, model_choice, custom_name, pressed,
                 validation_feedback, cloud_response, local_review, shown,
                 pending, calls, file_at_start, file, clock, runs>>

\* Variant of Precheck: a precheck that raised is issued once more.
Precheck_RetryOnError(s) ==
  /\ pc[s] = "precheck"
  /\ \E o \in PrecheckOutcomes :
       LET reply == validate_prompt_with_local(query[s], LOCAL_MODEL(s), o)
       IN  /\ validation_feedback' = [validation_feedback EXCEPT ![s] = reply]
           /\ shown' = [shown EXCEPT ![s] = Append(@, reply)]
           /\ calls' = [calls EXCEPT ![s] =
                          Append(@, Call("validate_prompt_with_local",
                                         LOCAL_MODEL(s),
                                         check_prompt(query[s]), o))]
           /\ pc' = [pc EXCEPT ![s] =
                       IF ~o.ok /\ Len(calls[s]) < 2 THEN "precheck"
                       ELSE "gate"]
  /\ UNCHANGED <<query, model_choice, custom_name, pressed, cloud_response,
                 local_review, pending, file_at_start, file, clock, runs>>

\* Lines 86-88: the precheck and st.info of its reply.
Precheck(s) ==
  /\ pc[s] = "precheck"
  /\ \E o \in PrecheckOutcomes :
       LET reply == validate_prompt_with_local(query[s], LOCAL_MODEL(s), o)
       IN  /\ validation_feedback' = [validation_feedback EXCEPT ![s] = reply]
           /\ shown' = [shown EXCEPT ![s] = Append(@, reply)]
           /\ calls' = [calls EXCEPT ![s] =
                          Append(@, Call("validate_prompt_with_local",
                                         LOCAL_MODEL(s),
                                         check_prompt(query[s]), o))]
  /\ pc' = [pc EXCEPT ![s] = "gate"]
  /\ UNCHANGED <<query, model_choice, custom_name, pressed, cloud_response,
                 local_review, pending, file_at_start, file, clock, runs>>

\* Lines 90-92: the compliance gate.
Gate(s) ==
  /\ pc[s] = "gate"
  /\ pc' = [pc EXCEPT ![s] =
              IF Flagged(validation_feedback[s]) THEN "rejected" ELSE "cloud"]
  /\ UNCHANGED <<query, model_choice, custom_name, pressed,
                 validation_feedback, cloud_response, local_review, shown,
                 pending, calls, file_at_start, file, clock, runs>>

\* Lines 95-96: the cloud call.
CloudCall(s) ==
  /\ pc[s] = "cloud"
  /\ \E o \in CloudOutcomes :
       /\ cloud_response' = [cloud_response EXCEPT ![s] = ask_cloud(query[s], o)]
       /\ calls' = [calls EXCEPT ![s] =
                      Append(@, Call("ask_cloud", CloudModelName, query[s], o))]
  /\ pc' = [pc EXCEPT ![s] = "postcheck"]
  /\ UNCHANGED <<query, model_choice, custom_name, pressed,
                 validation_feedback, local_review, shown, pending,
                 file_at_start, file, clock, runs>>

\* Lines 99-105: the postcheck of the cloud answer.
Postcheck(s) ==
  /\ pc[s] = "postcheck"
  /\ \E o \in PostcheckOutcomes :
       LET prompt == review_prompt(cloud_response[s])
       IN  /\ local_review' = [local_review EXCEPT ![s] =
                                 ask_local(prompt, LOCAL_MODEL(s), o)]
           /\ calls' = [calls EXCEPT ![s] =
                          Append(@, Call("ask_local", LOCAL_MODEL(s), prompt, o))]
  /\ pc' = [pc EXCEPT ![s] = "display"]
  /\ UNCHANGED <<query, model_choice, custom_name, pressed,
                 validation_feedback, cloud_response, shown, pending,
                 file_at_start, file, clock, runs>>

\* Variant of Display: a verdict holding "no" stops the run like the gate.
Display_GatedOnVerdict(s) ==
  /\ pc[s] = "display"
  /\ IF Flagged(local_review[s])
       THEN /\ pc' = [pc EXCEPT ![s] = "rejected"]
            /\ UNCHANGED <<shown, calls>>
       ELSE /\ shown' = [shown EXCEPT ![s] =
                           @ \o <<cloud_response[s], local_review[s]>>]
            /\ calls' = [calls EXCEPT ![s] =
                           Append(@, Call("display", <<>>, <<>>,
                                          Returned(<<>>)))]
            /\ pc' = [pc EXCEPT ![s] = "audit"]
  /\ UNCHANGED <<query, model_choice, custom_name, pressed,
                 validation_feedback, cloud_response, local_review, pending,
                 file_at_start, file, clock, runs>>

\* Lines 108-112: the two results are written to the page.
Display(s) ==
  /\ pc[s] = "display"
  /\ shown' = [shown EXCEPT ![s] = @ \o <<cloud_response[s], local_review[s]>>]
  /\ calls' = [calls EXCEPT ![s] =
                 Append(@, Call("display", <<>>, <<>>, Returned(<<>>)))]
  /\ pc' = [pc EXCEPT ![s] = "audit"]
  /\ UNCHANGED <<query, model_choice, custom_name, pressed,
                 validation_feedback, cloud_response, local_review, pending,
                 file_at_start, file, clock, runs>>

\* Lines 114, 45-53: audit_log builds the entry and appends its line; the
\* line reaches the file in one write(2), or only its head does.
AuditLog(s) ==
  /\ pc[s] = "audit"
  /\ LET entry == log_entry(clock, query[s], cloud_response[s], local_review[s])
     IN  /\ pending' = [pending EXCEPT ![s] = entry]
         /\ \/ /\ file' = AppendChunk(file, "line", entry)
               /\ pc' = [pc EXCEPT ![s] = "done"]
            \/ /\ file' = AppendChunk(file, "head", entry)
               /\ pc' = [pc EXCEPT ![s] = "flushing"]
  /\ clock' = clock + 1
  /\ calls' = [calls EXCEPT ![s] =
                 Append(@, Call("audit_log", <<>>, <<>>, Returned(<<>>)))]
  /\ UNCHANGED <<query, model_choice, custom_name, pressed,
                 validation_feedback, cloud_response, local_review, shown,
                 file_at_start, runs>>

\* Line 53, the rest of the flush: the tail of the line is appended at what
\* is then the end of the file.
AuditLogFlush(s) ==
  /\ pc[s] = "flushing"
  /\ file' = AppendChunk(file, "tail", pending[s])
  /\ pc' = [pc EXCEPT ![s] = "done"]
  /\ UNCHANGED <<query, model_choice, custom_name, pressed,
                 validation_feedback, cloud_response, local_review, shown,
                 pending, calls, file_at_start, clock, runs>>

\* The statements of one script run.
Run(s) ==
  \/ CheckSkipped(s)
  \/ CheckModel(s)
  \/ SubmitButton(s)
  \/ Precheck(s)
  \/ Gate(s)
  \/ CloudCall(s)
  \/ Postcheck(s)
  \/ Display(s)
  \/ AuditLog(s)
  \/ AuditLogFlush(s)

Step(s) == Open(s) \/ Interact(s) \/ Run(s)

\* One browser session: submissions come one after another.
Next == Step(1)

Spec == Init /\ [][Next]_vars

\* A script run, once started, executes its next statement (every call of
\* the run returns or raises); the user need not ever act.
LiveSpec == Spec /\ WF_vars(Run(1))

\* Two sessions run their scripts at the same time.
NextConcurrent == \E s \in Sessions : Step(s)

SpecConcurrent == Init /\ [][NextConcurrent]_vars

\* ------------------------------------------------------------- properties
\* The calls of session s's run, by name.
Ops(s) == [i \in 1..Len(calls[s]) |-> calls[s][i].op]
Made(s, op) == \E i \in 1..Len(calls[s]) : calls[s][i].op = op
TheCall(s, op) == calls[s][CHOOSE i \in 1..Len(calls[s]) : calls[s][i].op = op]

\* The lowercased text holds "no".
HoldsNo(t) ==
  \E i \in 1..(Len(t) - 1) :
    /\ t[i] \in {"n", "N"}
    /\ t[i + 1] \in {"o", "O"}

\* The pipeline's calls in the order of the script.
PipelineOrder ==
  <<"validate_prompt_with_local", "ask_cloud", "ask_local", "display",
    "audit_log">>

IsPrefix(a, b) == Len(a) <= Len(b) /\ SubSeq(b, 1, Len(a)) = a

\* The calls of the run without a leading `ollama list`.
PipelineOps(s) ==
  IF Len(calls[s]) > 0 /\ calls[s][1].op = "ollama list"
    THEN Tail(Ops(s)) ELSE Ops(s)

\* C1: once the precheck reply's lowercased text holds "no" (anywhere, as in
\* "I know") and the gate has been evaluated, the run is Rejected and has
\* made no cloud call, no postcheck and no audit-log append; a cloud call
\* has happened only after a precheck reply without "no".
C1_FlaggedReplyIsRejected ==
  \A s \in Sessions :
    /\ ( /\ Made(s, "validate_prompt_with_local")
         /\ pc[s] # "gate"
         /\ HoldsNo(validation_feedback[s]) )
       => /\ pc[s] = "rejected"
          /\ ~Made(s, "ask_cloud")
          /\ ~Made(s, "ask_local")
          /\ ~Made(s, "audit_log")
          /\ file = file_at_start[s]
    /\ Made(s, "ask_cloud")
       => /\ Made(s, "validate_prompt_with_local")
          /\ Ops(s)[Len(Ops(s))] # "validate_prompt_with_local"
          /\ ~HoldsNo(validation_feedback[s])

C1_Witness ==
  \E s \in Sessions :
    /\ pc[s] = "rejected"
    /\ validation_feedback[s] = <<"I", " ", "k", "n", "o", "w">>

\* C2: a run whose precheck reply holds "no" nowhere in its lowercased text
\* goes on to call ask_cloud with the submitted query.
C2_PassingReplyReachesCloud ==
  (pc[1] = "gate" /\ ~HoldsNo(validation_feedback[1]))
    ~> ( /\ Made(1, "ask_cloud")
         /\ TheCall(1, "ask_cloud").sent = query[1]
         /\ Strip(query[1]) # <<>> )

C2_Witness ==
  /\ Made(1, "ask_cloud")
  /\ TheCall(1, "ask_cloud").sent = <<"h", "i", " ">>
  /\ validation_feedback[1] = <<>>

\* C3 as stated: a Submit with an empty or whitespace-only query starts no
\* process at all (neither `ollama list` nor `ollama run`), sends no cloud
\* request and writes no audit record.
C3_EmptyQueryStartsNothing ==
  \A s \in Sessions :
    (pressed[s] /\ Strip(query[s]) = <<>>)
      => calls[s] = <<>> /\ file = file_at_start[s]

\* C3 amended: a Submit with an empty or whitespace-only query starts no
\* `ollama run`, sends no cloud request and writes no audit record; the only
\* process the run may start is the `ollama list` of the availability check,
\* which runs before the Submit handler.
C3_EmptyQueryStopsBeforePipeline ==
  \A s \in Sessions :
    (pressed[s] /\ Strip(query[s]) = <<>>)
      => /\ \A i \in 1..Len(calls[s]) : calls[s][i].op = "ollama list"
         /\ Len(calls[s]) <= 1
         /\ file = file_at_start[s]
         /\ pc[s] \in {"check", "button", "halted", "empty"}

C3_Witness ==
  \E s \in Sessions :
    /\ pc[s] = "empty"
    /\ query[s] = <<" ">>
    /\ Ops(s) = <<"ollama list">>

\* C4: a Submit with a non-empty query and LOCAL_MODEL == "" makes no call
\* (no precheck, no cloud call, no postcheck) and appends nothing to the log.
C4_BlankModelMakesNoCall ==
  \A s \in Sessions :
    (pressed[s] /\ LOCAL_MODEL(s) = <<>> /\ Strip(query[s]) # <<>>)
      => calls[s] = <<>> /\ file = file_at_start[s]

\* C5: a run that went through with a cloud call that succeeded has appended
\* exactly one line to the log, after the lines that were there, a record of
\* exactly the four fields with the submitted query, the cloud stage's text
\* and the postcheck's text; before audit_log the run has written nothing.
C5_FullRunAppendsOneRecord ==
  \A s \in Sessions :
    /\ (pc[s] = "done" /\ TheCall(s, "ask_cloud").ok)
       => LET n == Len(file_at_start[s])
          IN  /\ Len(file) = n + 1
              /\ SubSeq(file, 1, n) = file_at_start[s]
              /\ file[n + 1].part = "line"
              /\ DOMAIN file[n + 1].entry =
                   {"timestamp", "input", "cloud_response", "local_validation"}
              /\ file[n + 1].entry.input = query[s]
              /\ file[n + 1].entry.cloud_response = cloud_response[s]
              /\ file[n + 1].entry.cloud_response =
                   Strip(TheCall(s, "ask_cloud").out)
              /\ file[n + 1].entry.local_validation = local_review[s]
    /\ pc[s] \in {"check", "button", "precheck", "gate", "cloud", "postcheck",
                  "display", "audit"}
       => file = file_at_start[s]

C5_Witness ==
  /\ pc[1] = "done"
  /\ TheCall(1, "ask_cloud").ok
  /\ Len(file) = 2
  /\ file[2].entry.input = <<"h", "i", " ">>

\* C6 as stated: whenever the precheck invocation raises, whatever the
\* exception's message, the reply is the sentinel and the run goes on to the
\* cloud call.
C6_EveryFailurePassesTheGate ==
  \A s \in Sessions :
    ( /\ Made(s, "validate_prompt_with_local")
      /\ ~TheCall(s, "validate_prompt_with_local").ok
      /\ pc[s] # "gate" )
      => /\ validation_feedback[s] =
              LocalValidationErrorPrefix
                \o TheCall(s, "validate_prompt_with_local").out \o ErrorSuffix
         /\ pc[s] # "rejected"

\* C6 amended: whenever the precheck invocation raises, the reply is the
\* sentinel "[Local validation error: <message>]", and the run goes on to the
\* cloud call exactly when the lowercased message holds no "no"; a message
\* with "no" in it ("[Errno 2] No such file or directory: 'ollama'") ends
\* the run in Rejected.
C6_FailurePassesUnlessMessageHoldsNo ==
  \A s \in Sessions :
    ( /\ Made(s, "validate_prompt_with_local")
      /\ ~TheCall(s, "validate_prompt_with_local").ok )
      => LET msg == TheCall(s, "validate_prompt_with_local").out
         IN  /\ validation_feedback[s] =
                  LocalValidationErrorPrefix \o msg \o ErrorSuffix
             /\ pc[s] # "gate"
                  => /\ (pc[s] = "rejected") = HoldsNo(msg)
                     /\ ~HoldsNo(msg) => (pc[s] = "cloud" \/ Made(s, "ask_cloud"))

C6_Witness ==
  \E s \in Sessions :
    /\ Made(s, "ask_cloud")
    /\ ~TheCall(s, "validate_prompt_with_local").ok
    /\ TheCall(s, "validate_prompt_with_local").out = ErrDecode

\* C7: after two concurrent submissions have both finished, the log holds
\* their records as complete lines, none cut in two by the other's bytes.
C7_ConcurrentAppendsKeepLinesWhole ==
  (\A s \in Sessions : pc[s] = "done")
    => \A i \in 1..Len(file) : file[i].part = "line"

\* C8: with a non-blank model chosen, the run has asked `ollama list` before
\* anything else; if that raised or its output does not hold the model name,
\* the run is halted with nothing else called and nothing logged; if the
\* output holds the name as a substring, the run is not halted.
C8_AvailabilityCheckHaltsRun ==
  \A s \in Sessions :
    (LOCAL_MODEL(s) # <<>> /\ pc[s] \notin {"closed", "check"})
      => /\ Len(calls[s]) >= 1
         /\ calls[s][1].op = "ollama list"
         /\ IF /\ calls[s][1].ok
               /\ \E i \in 0..(Len(calls[s][1].out) - Len(LOCAL_MODEL(s))) :
                    \A j \in 1..Len(LOCAL_MODEL(s)) :
                      calls[s][1].out[i + j] = LOCAL_MODEL(s)[j]
              THEN pc[s] # "halted"
              ELSE /\ pc[s] = "halted"
                   /\ Len(calls[s]) = 1
                   /\ file = file_at_start[s]

C8_Witness ==
  \E s \in Sessions :
    /\ pc[s] = "halted"
    /\ pressed[s]
    /\ ~calls[s][1].ok

\* C9: once the gate has passed, whatever the cloud stage and the postcheck
\* return, the run reaches the end having run the postcheck on the cloud
\* text, displayed both texts and appended a record carrying them.
C9_AfterGateRunCompletes ==
  (pc[1] = "cloud")
    ~> ( /\ pc[1] = "done"
         /\ TheCall(1, "ask_local").sent =
              ReviewPromptHead \o cloud_response[1] \o ReviewPromptTail
         /\ Made(1, "display")
         /\ SubSeq(shown[1], Len(shown[1]) - 1, Len(shown[1])) =
              <<cloud_response[1], local_review[1]>>
         /\ file[Len(file)].part = "line"
         /\ file[Len(file)].entry.cloud_response = cloud_response[1]
         /\ file[Len(file)].entry.local_validation = local_review[1] )

C9_Witness ==
  /\ pc[1] = "done"
  /\ ~TheCall(1, "ask_cloud").ok
  /\ local_review[1] = <<"N", "O">>
  /\ Len(file) > Len(file_at_start[1])

\* C10: within one run the precheck, the cloud call, the postcheck, the
\* display and the audit append happen at most once each and in that order
\* (after at most one `ollama list`); nothing follows a rejection, and a
\* finished run has made each of them once.
C10_ForwardOrderNoRetry ==
  \A s \in Sessions :
    /\ IsPrefix(PipelineOps(s), PipelineOrder)
    /\ pc[s] = "rejected" => PipelineOps(s) = <<"validate_prompt_with_local">>
    /\ pc[s] \in {"flushing", "done"} => PipelineOps(s) = PipelineOrder
    /\ pc[s] \in {"halted", "empty", "idle", "closed", "check", "button",
                  "precheck"}
         => PipelineOps(s) = <<>>

C10_Witness ==
  \E s \in Sessions :
    /\ pc[s] = "done"
    /\ Len(calls[s]) = 6
    /\ ~TheCall(s, "ask_local").ok

====
